---- MODULE Spec2Model ----
(***************************************************************************)
(* Weekly class schedule: expansion of section rows into occurrences and   *)
(* the drag-and-drop reschedule handler of ScheduleCalendar, with the      *)
(* store (time_slot table) and the writes in flight between them.          *)
(*                                                                         *)
(* A Date is the number of milliseconds since local midnight of a fixed    *)
(* Monday (day 0); a local day has 24 hours.                               *)
(* An "HH:MM:SS" string is the triple of its three two-digit fields, each  *)
(* a pair of decimal digits.                                               *)
(***************************************************************************)
EXTENDS Integers, Sequences, FiniteSets, TLC

VARIABLES
    sections,   \* store: the section rows without their times (never written)
    timeSlot,   \* store: time_slot table, time_slot_id -> start_time, end_time
    events,     \* React state `events`
    loaded,     \* fetchEvents: "pending", "ok" or "failed"
    pending,    \* <<m>> while window.confirm shows the conflicts of move m
    requests,   \* time_slot updates awaited by a suspended handleEventDrop
    moves,      \* number of drops that went past the weekday check
    last,       \* the step that led to this state, with the alert it showed
    professorFilter,    \* React state: the selected professors, in selection order
    roomFilter,         \* React state: the selected rooms
    gradeFilter,        \* React state: the selected grade levels
    probe       \* a call of timesOverlap: its arguments and what it returned

filters == <<professorFilter, roomFilter, gradeFilter>>

vars ==
    <<sections, timeSlot, events, loaded, pending, requests, moves, last, filters, probe>>

----------------------------------------------------------------------------
(* Bounds *)

MaxMoves == 2
MaxInFlight == 2
MaxCodeLen == 3     \* longest day_code of the rows drawn for the expansion
MaxInstant == 3     \* latest instant passed to timesOverlap on its own

----------------------------------------------------------------------------
(* Date *)

DaysPerWeek == 7

MsPerSecond == 1000
MsPerMinute == 60 * MsPerSecond
MsPerHour == 60 * MsPerMinute
MsPerDay == 24 * MsPerHour

At(day, h, m, s) == day * MsPerDay + h * MsPerHour + m * MsPerMinute + s * MsPerSecond

DateOf(d) == d \div MsPerDay

getDay(d) == (DateOf(d) + 1) % DaysPerWeek

getDate(d) == DateOf(d)

getHours(d) == (d % MsPerDay) \div MsPerHour

getMinutes(d) == (d % MsPerHour) \div MsPerMinute

getSeconds(d) == (d % MsPerMinute) \div MsPerSecond

setDate(d, n) == n * MsPerDay + (d % MsPerDay)

setHours(d, h, m, s, ms) ==
    DateOf(d) * MsPerDay + h * MsPerHour + m * MsPerMinute + s * MsPerSecond + ms

TimeOfDay(d) == d % MsPerDay

----------------------------------------------------------------------------
(* Strings of digits *)

\* String(n).padStart(2, '0') for 0 <= n <= 99
PadStart2(n) == <<n \div 10, n % 10>>

\* Number(s) for a string of decimal digits
RECURSIVE Number(_)
Number(s) ==
    IF Len(s) = 0 THEN 0
    ELSE 10 * Number(SubSeq(s, 1, Len(s) - 1)) + s[Len(s)]

\* String(n) for an integer n >= 0
RECURSIVE Digits(_)
Digits(n) == IF n < 10 THEN <<n>> ELSE Digits(n \div 10) \o <<n % 10>>

\* String(v): a grade level is stored as an integer or as a string
String(v) == IF v.t = "int" THEN Digits(v.v) ELSE v.v

\* t.split(':').map(Number)[i] || 0, where a missing field is undefined
FieldOrZero(t, i) == IF i > Len(t) THEN 0 ELSE Number(t[i])

----------------------------------------------------------------------------
(* Helpers of the component *)

DAY_MAP == [M |-> 1, T |-> 2, W |-> 3, R |-> 4, F |-> 5]

\* a slip: the week begins on Sunday
getWeekStartSunday(date) ==
    LET day == getDay(date)
        d == setDate(date, getDate(date) - day)
    IN  setHours(d, 0, 0, 0, 0)

getWeekStart(date) ==
    LET day == getDay(date)
        diff == (day + 6) % DaysPerWeek
        d == setDate(date, getDate(date) - diff)
    IN  setHours(d, 0, 0, 0, 0)

toTimeString(date) ==
    <<PadStart2(getHours(date)), PadStart2(getMinutes(date)), PadStart2(getSeconds(date))>>

\* a slip: intervals that only touch overlap
timesOverlapClosed(startA, endA, startB, endB) == startA <= endB /\ endA >= startB

timesOverlap(startA, endA, startB, endB) == startA < endB /\ endA > startB

\* the events of one row, for the day codes from position k on
RECURSIVE CodesToEvents(_, _, _, _)
CodesToEvents(row, codes, k, monday) ==
    IF k > Len(codes) THEN <<>>
    ELSE
        LET code == codes[k]
            rest == CodesToEvents(row, codes, k + 1, monday)
        IN  IF code \notin DOMAIN DAY_MAP THEN rest
            ELSE
                LET weekday == DAY_MAP[code]
                    baseDate == setDate(monday, getDate(monday) + (weekday - 1))
                    sh == Number(row.start_time[1])
                    sm == Number(row.start_time[2])
                    ss == FieldOrZero(row.start_time, 3)
                    eh == Number(row.end_time[1])
                    em == Number(row.end_time[2])
                    es == FieldOrZero(row.end_time, 3)
                    start == setHours(baseDate, sh, sm, ss, 0)
                    end == setHours(baseDate, eh, em, es, 0)
                IN  << [ id |-> <<row.section_id, code>>,
                         sectionId |-> row.section_id,
                         patternSlotId |-> row.pattern_slot_id,
                         timeSlotId |-> row.time_slot_id,
                         title |-> row.course_code,
                         professor |-> row.instructor_name,
                         room |-> row.room_name,
                         gradeLevel |-> String(row.grade_level),
                         start |-> start,
                         end |-> end ] >> \o rest

RECURSIVE RowsToEventsFrom(_, _, _)
RowsToEventsFrom(rows, k, monday) ==
    IF k > Len(rows) THEN <<>>
    ELSE
        LET row == rows[k]
            codes == IF Len(row.day_code) > 0 THEN row.day_code ELSE <<"M">>
        IN  CodesToEvents(row, codes, 1, monday) \o RowsToEventsFrom(rows, k + 1, monday)

rowsToEvents(rows, now) == RowsToEventsFrom(rows, 1, getWeekStart(now))

----------------------------------------------------------------------------
(* The store: section_calendar_view joins the section rows with time_slot *)

ViewRow(sec, slots) ==
    [ section_id |-> sec.section_id,
      pattern_slot_id |-> sec.pattern_slot_id,
      time_slot_id |-> sec.time_slot_id,
      day_code |-> sec.day_code,
      start_time |-> slots[sec.time_slot_id].start_time,
      end_time |-> slots[sec.time_slot_id].end_time,
      course_code |-> sec.course_code,
      instructor_name |-> sec.instructor_name,
      room_name |-> sec.room_name,
      grade_level |-> sec.grade_level ]

ViewRows(secs, slots) == [k \in DOMAIN secs |-> ViewRow(secs[k], slots)]

\* supabase.from('time_slot').update({start_time, end_time}).eq('time_slot_id', id)
UpdateTimeSlot(slots, id, startStr, endStr) ==
    [k \in DOMAIN slots |->
        IF k = id THEN [start_time |-> startStr, end_time |-> endStr] ELSE slots[k]]

----------------------------------------------------------------------------
(* Filters *)

\* array.includes(value)
Includes(array, value) == \E i \in DOMAIN array : array[i] = value

\* Array.from(new Set(events.map(...))).sort(), as the set of its elements
FacetValues(evs, facet) ==
    { (CASE facet = "professor" -> evs[k].professor
         [] facet = "room" -> evs[k].room
         [] facet = "grade" -> evs[k].gradeLevel) : k \in DOMAIN evs }

\* the array toggleFilterValue hands to setFn for a value of the list
ToggledValue(prev, value) ==
    IF Len(prev) = 0 THEN <<value>>
    ELSE IF Includes(prev, value)
         THEN SelectSeq(prev, LAMBDA v : v # value)
         ELSE Append(prev, value)

\* the callback of events.filter
\* a slip: an empty selection is not taken as "all"
PassesFiltersStrict(e, pf, rf, gf) ==
    Includes(pf, e.professor) /\ Includes(rf, e.room) /\ Includes(gf, e.gradeLevel)

PassesFilters(e, pf, rf, gf) ==
    IF Len(pf) > 0 /\ ~Includes(pf, e.professor) THEN FALSE
    ELSE IF Len(rf) > 0 /\ ~Includes(rf, e.room) THEN FALSE
    ELSE IF Len(gf) > 0 /\ ~Includes(gf, e.gradeLevel) THEN FALSE
    ELSE TRUE

RECURSIVE FilterFrom(_, _, _, _, _)
FilterFrom(evs, k, pf, rf, gf) ==
    IF k > Len(evs) THEN <<>>
    ELSE (IF PassesFilters(evs[k], pf, rf, gf) THEN <<evs[k]>> ELSE <<>>)
         \o FilterFrom(evs, k + 1, pf, rf, gf)

filteredEvents(evs, pf, rf, gf) == FilterFrom(evs, 1, pf, rf, gf)

----------------------------------------------------------------------------
(* handleEventDrop *)

\* a slip: the conflict check runs over the events on display
ConflictSourceShown(all, shown) == shown

\* the events the conflict check runs over
ConflictSource(all, shown) == all

\* a slip: the original weekday is read from the proposed start
DayChangedOfDrop(event, start) ==
    LET originalDay == getDay(start)
        newDay == getDay(start)
    IN  originalDay # newDay

DayChanged(event, start) ==
    LET originalDay == getDay(event.start)
        newDay == getDay(start)
    IN  originalDay # newDay

MovedEvent(event, start, end, isAllDay) ==
    [allDay |-> isAllDay] @@ [event EXCEPT !.start = start, !.end = end]

\* a slip: the moved event is compared with itself too
ConflictsWithSelf(movedEvent, other) ==
    IF ~timesOverlap(movedEvent.start, movedEvent.end, other.start, other.end)
    THEN <<>>
    ELSE
        (IF movedEvent.professor = other.professor
            THEN << [kind |-> "Professor", who |-> movedEvent.professor, title |-> other.title] >>
            ELSE <<>>)
        \o
        (IF movedEvent.room = other.room
            THEN << [kind |-> "Room", who |-> movedEvent.room, title |-> other.title] >>
            ELSE <<>>)
        \o
        (IF movedEvent.gradeLevel = other.gradeLevel
            THEN << [kind |-> "Grade-level", who |-> movedEvent.gradeLevel, title |-> other.title] >>
            ELSE <<>>)

\* the entries one `other` adds to the conflict list
ConflictsWith(movedEvent, other) ==
    IF other.id = movedEvent.id THEN <<>>
    ELSE IF ~timesOverlap(movedEvent.start, movedEvent.end, other.start, other.end)
    THEN <<>>
    ELSE
        (IF movedEvent.professor = other.professor
            THEN << [kind |-> "Professor", who |-> movedEvent.professor, title |-> other.title] >>
            ELSE <<>>)
        \o
        (IF movedEvent.room = other.room
            THEN << [kind |-> "Room", who |-> movedEvent.room, title |-> other.title] >>
            ELSE <<>>)
        \o
        (IF movedEvent.gradeLevel = other.gradeLevel
            THEN << [kind |-> "Grade-level", who |-> movedEvent.gradeLevel, title |-> other.title] >>
            ELSE <<>>)

RECURSIVE ConflictsFrom(_, _, _)
ConflictsFrom(movedEvent, evs, k) ==
    IF k > Len(evs) THEN <<>>
    ELSE ConflictsWith(movedEvent, evs[k]) \o ConflictsFrom(movedEvent, evs, k + 1)

Conflicts(movedEvent, evs) == ConflictsFrom(movedEvent, evs, 1)

\* a slip: the conflict list is not looked at
AsksUserNever(conflicts) == FALSE

\* the handler opens window.confirm
AsksUser(conflicts) == Len(conflicts) > 0

\* a slip: the answer of window.confirm is not looked at
AbortsNever(override) == FALSE

\* a slip: a conflict stops the move whatever the answer
AbortsAlways(override) == TRUE

\* the handler returns after window.confirm
Aborts(override) == ~override

\* the awaited update of time_slot, with what the suspended handler holds
UpdateRequest(id, event, start, end, asked) ==
    [ id |-> id,
      timeSlotId |-> event.timeSlotId,
      start |-> start,
      end |-> end,
      start_time |-> toTimeString(start),
      end_time |-> toTimeString(end),
      asked |-> asked,
      status |-> "sent" ]

\* a slip: the dropped dates are copied instead of the event's own
NewTimesOfDrop(e, start, end) == [start |-> start, end |-> end]

\* the dates an updated event gets
NewTimes(e, start, end) ==
    LET sh == getHours(start)
        sm == getMinutes(start)
        ss == getSeconds(start)
        eh == getHours(end)
        em == getMinutes(end)
        es == getSeconds(end)
    IN  [ start |-> setHours(e.start, sh, sm, ss, 0),
          end |-> setHours(e.end, eh, em, es, 0) ]

\* a slip: only the first event of the time slot is updated
ApplyMoveFirst(prev, timeSlotId, start, end) ==
    LET hit == {k \in DOMAIN prev : prev[k].timeSlotId = timeSlotId}
    IN  [k \in DOMAIN prev |->
            IF k \notin hit \/ \E j \in hit : j < k THEN prev[k]
            ELSE [prev[k] EXCEPT !.start = setHours(prev[k].start, getHours(start),
                                                    getMinutes(start), getSeconds(start), 0),
                                 !.end = setHours(prev[k].end, getHours(end),
                                                  getMinutes(end), getSeconds(end), 0)]]

\* a slip: the time slot of an event is not looked at
AffectedAlways(e, timeSlotId) == TRUE

Affected(e, timeSlotId) == ~(e.timeSlotId # timeSlotId)

\* setEvents((prev) => prev.map(...))
ApplyMove(prev, timeSlotId, start, end) ==
    [k \in DOMAIN prev |->
        IF ~Affected(prev[k], timeSlotId) THEN prev[k]
        ELSE [prev[k] EXCEPT !.start = NewTimes(prev[k], start, end).start,
                             !.end = NewTimes(prev[k], start, end).end]]

\* a slip: the events are updated whatever the answer
AfterUpdateOptimistic(prev, r, error) == ApplyMove(prev, r.timeSlotId, r.start, r.end)

\* what the handler does with `events` once the update has answered
AfterUpdate(prev, r, error) ==
    IF error THEN prev ELSE ApplyMove(prev, r.timeSlotId, r.start, r.end)

----------------------------------------------------------------------------
(* Inputs *)

Grade(n) == [t |-> "int", v |-> n]
GradeStr(s) == [t |-> "str", v |-> s]

SectionA ==
    [ section_id |-> 1, pattern_slot_id |-> 11, time_slot_id |-> 1,
      day_code |-> <<"M", "W">>, course_code |-> "CS101",
      instructor_name |-> "Lee", room_name |-> "Room 101", grade_level |-> Grade(1) ]

SectionB(slot, codes, prof, room, grade) ==
    [ section_id |-> 2, pattern_slot_id |-> 12, time_slot_id |-> slot,
      day_code |-> codes, course_code |-> "MA201",
      instructor_name |-> prof, room_name |-> room, grade_level |-> grade ]

\* section B shares the room with A; or professor, room and grade level (its
\* grade level a string, its day code with an unknown letter); or nothing but
\* the time slot (its day code empty)
SectionChoices ==
    { <<SectionA, SectionB(2, <<"M">>, "Kim", "Room 101", Grade(2))>>,
      <<SectionA, SectionB(2, <<"M", "S">>, "Lee", "Room 101", GradeStr(<<1>>))>>,
      <<SectionA, SectionB(1, <<>>, "Kim", "Room 102", Grade(2))>> }

TimeString(h, m, s) == <<PadStart2(h), PadStart2(m), PadStart2(s)>>

InitialTimeSlot ==
    [k \in {1, 2} |->
        IF k = 1 THEN [start_time |-> TimeString(9, 0, 0), end_time |-> TimeString(10, 0, 0)]
        ELSE [start_time |-> TimeString(9, 30, 0), end_time |-> TimeString(10, 30, 0)]]

\* the clock when the page loads: a Wednesday afternoon, a Sunday morning
NowChoices == {At(2, 15, 20, 0), At(6, 8, 0, 0)}

\* where a drag can end: this Monday, this Wednesday, next Monday
DropStarts ==
    { At(0, 9, 30, 0), At(0, 11, 0, 0), At(0, 23, 30, 0),
      At(2, 9, 30, 0), At(2, 11, 0, 0),
      At(7, 9, 30, 0) }

\* the proposed end lies one hour after the proposed start, the length of every
\* event at load (the calendar is not resizable)
DropDurations == {MsPerHour}

NoStep ==
    [ op |-> "none", now |-> 0, event |-> <<>>, start |-> 0, end |-> 0,
      conflicts |-> <<>>, req |-> <<>>, notice |-> "none" ]

NoProbe == [args |-> <<>>, result |-> FALSE, swapped |-> FALSE]

----------------------------------------------------------------------------
(* State machine *)

Init ==
    /\ sections \in SectionChoices
    /\ timeSlot = InitialTimeSlot
    /\ events = <<>>
    /\ loaded = "pending"
    /\ pending = <<>>
    /\ requests = {}
    /\ moves = 0
    /\ last = NoStep
    /\ professorFilter = <<>>
    /\ roomFilter = <<>>
    /\ gradeFilter = <<>>
    /\ probe = NoProbe

\* fetchEvents: the read answers with the rows
FetchOk(now) ==
    /\ loaded = "pending"
    /\ events' = rowsToEvents(ViewRows(sections, timeSlot), now)
    /\ loaded' = "ok"
    /\ last' = [NoStep EXCEPT !.op = "load", !.now = now]
    /\ UNCHANGED <<filters, probe, sections, timeSlot, pending, requests, moves>>

\* fetchEvents: the read answers with an error
FetchError ==
    /\ loaded = "pending"
    /\ loaded' = "failed"
    /\ last' = [NoStep EXCEPT !.op = "loadError"]
    /\ UNCHANGED <<filters, probe, sections, timeSlot, events, pending, requests, moves>>

\* handleEventDrop up to its window.confirm or its await
Drop(i, start, end, isAllDay) ==
    /\ loaded = "ok"
    /\ pending = <<>>
    /\ moves < MaxMoves
    /\ Cardinality(requests) < MaxInFlight
    /\ i \in DOMAIN events
    /\ PassesFilters(events[i], professorFilter, roomFilter, gradeFilter)
    /\ LET event == events[i]
           movedEvent == MovedEvent(event, start, end, isAllDay)
           shown == filteredEvents(events, professorFilter, roomFilter, gradeFilter)
           conflicts == Conflicts(movedEvent, ConflictSource(events, shown))
           m == [id |-> moves + 1, event |-> event, start |-> start, end |-> end,
                 conflicts |-> conflicts]
       IN  IF DayChanged(event, start)
           THEN /\ last' = [NoStep EXCEPT !.op = "drop", !.event = <<event>>,
                                          !.start = start, !.end = end,
                                          !.notice = "dayChange"]
                /\ UNCHANGED <<pending, requests, moves>>
           ELSE /\ last' = [NoStep EXCEPT !.op = "drop", !.event = <<event>>,
                                          !.start = start, !.end = end,
                                          !.conflicts = conflicts]
                /\ moves' = moves + 1
                /\ IF AsksUser(conflicts)
                   THEN /\ pending' = <<m>>
                        /\ UNCHANGED requests
                   ELSE /\ requests' = requests \cup
                               {UpdateRequest(moves + 1, event, start, end, FALSE)}
                        /\ UNCHANGED pending
    /\ UNCHANGED <<filters, probe, sections, timeSlot, events, loaded>>

\* window.confirm returns
Confirm(override) ==
    /\ pending # <<>>
    /\ LET m == pending[1]
       IN  /\ last' = [NoStep EXCEPT !.op = IF override THEN "accept" ELSE "decline",
                                     !.event = <<m.event>>, !.start = m.start,
                                     !.end = m.end, !.conflicts = m.conflicts]
           /\ IF Aborts(override)
              THEN UNCHANGED requests
              ELSE requests' = requests \cup
                       {UpdateRequest(m.id, m.event, m.start, m.end, TRUE)}
    /\ pending' = <<>>
    /\ UNCHANGED <<filters, probe, sections, timeSlot, events, loaded, moves>>

\* the store applies an update and answers without error
StoreUpdate(r) ==
    /\ r \in requests
    /\ r.status = "sent"
    /\ timeSlot' = UpdateTimeSlot(timeSlot, r.timeSlotId, r.start_time, r.end_time)
    /\ requests' = (requests \ {r}) \cup {[r EXCEPT !.status = "ok"]}
    /\ last' = [NoStep EXCEPT !.op = "store", !.req = <<r>>]
    /\ UNCHANGED <<filters, probe, sections, events, loaded, pending, moves>>

\* the store answers an update with an error and applies nothing
StoreError(r) ==
    /\ r \in requests
    /\ r.status = "sent"
    /\ requests' = (requests \ {r}) \cup {[r EXCEPT !.status = "error"]}
    /\ last' = [NoStep EXCEPT !.op = "storeError", !.req = <<r>>]
    /\ UNCHANGED <<filters, probe, sections, timeSlot, events, loaded, pending, moves>>

\* handleEventDrop after its await
Resume(r) ==
    /\ r \in requests
    /\ r.status \in {"ok", "error"}
    /\ pending = <<>>
    /\ LET error == (r.status = "error")
       IN  /\ events' = AfterUpdate(events, r, error)
           /\ last' = [NoStep EXCEPT !.op = IF error THEN "failed" ELSE "committed",
                                     !.req = <<r>>,
                                     !.notice = IF error THEN "saveFailed" ELSE "none"]
    /\ requests' = requests \ {r}
    /\ UNCHANGED <<filters, probe, sections, timeSlot, loaded, pending, moves>>

Next ==
    \/ \E now \in NowChoices : FetchOk(now)
    \/ FetchError
    \/ \E i \in 1..Len(events), start \in DropStarts, d \in DropDurations,
          isAllDay \in BOOLEAN :
            Drop(i, start, start + d, isAllDay)
    \/ \E override \in BOOLEAN : Confirm(override)
    \/ \E r \in requests : StoreUpdate(r)
    \/ \E r \in requests : StoreError(r)
    \/ \E r \in requests : Resume(r)

Spec == Init /\ [][Next]_vars

----------------------------------------------------------------------------
(* The filter check boxes, and one move under every selection *)

Facets == {"professor", "room", "grade"}

FilterOf(facet) ==
    CASE facet = "professor" -> professorFilter
      [] facet = "room" -> roomFilter
      [] facet = "grade" -> gradeFilter

\* setFn(next) for the filter of facet
SetFilter(facet, next) ==
    /\ professorFilter' = IF facet = "professor" THEN next ELSE professorFilter
    /\ roomFilter' = IF facet = "room" THEN next ELSE roomFilter
    /\ gradeFilter' = IF facet = "grade" THEN next ELSE gradeFilter

\* toggleFilterValue('__ALL__', ...): the "All" check box of a facet
ToggleAll(facet) ==
    /\ pending = <<>>
    /\ SetFilter(facet, <<>>)
    /\ last' = [NoStep EXCEPT !.op = "toggleAll"]
    /\ UNCHANGED <<probe, sections, timeSlot, events, loaded, pending, requests, moves>>

\* toggleFilterValue(value, ...): the check box of a value in the facet's list
ToggleValue(facet, value) ==
    /\ pending = <<>>
    /\ value \in FacetValues(events, facet)
    /\ SetFilter(facet, ToggledValue(FilterOf(facet), value))
    /\ last' = [NoStep EXCEPT !.op = "toggle"]
    /\ UNCHANGED <<probe, sections, timeSlot, events, loaded, pending, requests, moves>>

FilterNext ==
    \/ \E now \in NowChoices : FetchOk(now)
    \/ FetchError
    \/ \E facet \in Facets : ToggleAll(facet)
    \/ \E facet \in Facets : \E value \in FacetValues(events, facet) :
            ToggleValue(facet, value)
    \/ \E i \in 1..Len(events), start \in DropStarts, d \in DropDurations,
          isAllDay \in BOOLEAN :
            moves = 0 /\ Drop(i, start, start + d, isAllDay)
    \/ \E override \in BOOLEAN : Confirm(override)
    \/ \E r \in requests : StoreUpdate(r)
    \/ \E r \in requests : StoreError(r)
    \/ \E r \in requests : Resume(r)

SpecFilter == Init /\ [][FilterNext]_vars

----------------------------------------------------------------------------
(* One move when the awaited update can throw *)

\* the awaited update rejects instead of answering {error}; the store has
\* applied the update or not
StoreThrow(r, written) ==
    /\ r \in requests
    /\ r.status = "sent"
    /\ timeSlot' = IF written
                   THEN UpdateTimeSlot(timeSlot, r.timeSlotId, r.start_time, r.end_time)
                   ELSE timeSlot
    /\ requests' = (requests \ {r}) \cup {[r EXCEPT !.status = "thrown"]}
    /\ last' = [NoStep EXCEPT !.op = "storeThrow", !.req = <<r>>]
    /\ UNCHANGED <<filters, probe, sections, events, loaded, pending, moves>>

\* handleEventDrop when its await throws: no try encloses the await, the
\* exception leaves the handler, nothing after the await runs
Unwind(r) ==
    /\ r \in requests
    /\ r.status = "thrown"
    /\ pending = <<>>
    /\ last' = [NoStep EXCEPT !.op = "uncaught", !.req = <<r>>]
    /\ requests' = requests \ {r}
    /\ UNCHANGED <<filters, probe, sections, timeSlot, events, loaded, pending, moves>>

ThrowNext ==
    \/ \E now \in NowChoices : FetchOk(now)
    \/ FetchError
    \/ \E i \in 1..Len(events), start \in DropStarts, d \in DropDurations,
          isAllDay \in BOOLEAN :
            moves = 0 /\ Drop(i, start, start + d, isAllDay)
    \/ \E override \in BOOLEAN : Confirm(override)
    \/ \E r \in requests : StoreUpdate(r)
    \/ \E r \in requests : StoreError(r)
    \/ \E r \in requests, written \in BOOLEAN : StoreThrow(r, written)
    \/ \E r \in requests : Resume(r)
    \/ \E r \in requests : Unwind(r)

SpecThrow == Init /\ [][ThrowNext]_vars

----------------------------------------------------------------------------
(* One move in a week where three sections meet on Monday *)

\* a third section in B's time slot: A's professor and grade level, another room
SectionC ==
    [ section_id |-> 3, pattern_slot_id |-> 13, time_slot_id |-> 2,
      day_code |-> <<"M", "W">>, course_code |-> "PH301",
      instructor_name |-> "Lee", room_name |-> "Room 102", grade_level |-> GradeStr(<<1>>) ]

CrowdedSections == {secs \o <<SectionC>> : secs \in SectionChoices}

CrowdedInit ==
    /\ sections \in CrowdedSections
    /\ timeSlot = InitialTimeSlot
    /\ events = <<>>
    /\ loaded = "pending"
    /\ pending = <<>>
    /\ requests = {}
    /\ moves = 0
    /\ last = NoStep
    /\ professorFilter = <<>>
    /\ roomFilter = <<>>
    /\ gradeFilter = <<>>
    /\ probe = NoProbe

CrowdedNext ==
    \/ \E now \in NowChoices : FetchOk(now)
    \/ FetchError
    \/ \E i \in 1..Len(events), start \in DropStarts, d \in DropDurations,
          isAllDay \in BOOLEAN :
            moves = 0 /\ Drop(i, start, start + d, isAllDay)
    \/ \E override \in BOOLEAN : Confirm(override)
    \/ \E r \in requests : StoreUpdate(r)
    \/ \E r \in requests : StoreError(r)
    \/ \E r \in requests : Resume(r)

SpecCrowded == CrowdedInit /\ [][CrowdedNext]_vars

----------------------------------------------------------------------------
(* timesOverlap on its own, for every four instants up to MaxInstant *)

Instants == 0..MaxInstant

OverlapInit ==
    /\ sections = <<>>
    /\ timeSlot = InitialTimeSlot
    /\ events = <<>>
    /\ loaded = "pending"
    /\ pending = <<>>
    /\ requests = {}
    /\ moves = 0
    /\ last = NoStep
    /\ professorFilter = <<>>
    /\ roomFilter = <<>>
    /\ gradeFilter = <<>>
    /\ probe = NoProbe

\* timesOverlap(startA, endA, startB, endB), and the call with A and B exchanged
Overlap(startA, endA, startB, endB) ==
    /\ probe' = [ args |-> <<startA, endA, startB, endB>>,
                  result |-> timesOverlap(startA, endA, startB, endB),
                  swapped |-> timesOverlap(startB, endB, startA, endA) ]
    /\ UNCHANGED <<filters, sections, timeSlot, events, loaded, pending, requests, moves, last>>

OverlapNext == \E startA, endA, startB, endB \in Instants : Overlap(startA, endA, startB, endB)

SpecOverlap == OverlapInit /\ [][OverlapNext]_vars

----------------------------------------------------------------------------
(* The expansion of rows into events, for every day code up to MaxCodeLen *)

\* the characters of a day_code: the five of DAY_MAP and one that is not
DayChars == {"M", "T", "W", "R", "F", "S"}

DayCodes == UNION {[1..n -> DayChars] : n \in 0..MaxCodeLen}

\* a second row of the view: another section, or the same section once more
SecondRows ==
    { SectionB(2, <<"M">>, "Kim", "Room 101", Grade(2)),
      [SectionB(2, <<"W", "M">>, "Kim", "Room 102", Grade(2)) EXCEPT !.section_id = 1] }

ExpandSections ==
    {<<[SectionA EXCEPT !.day_code = c]>> : c \in DayCodes}
        \cup {<<[SectionA EXCEPT !.day_code = c], b>> : c \in DayCodes, b \in SecondRows}

\* times with seconds, and "HH:MM" without them
ExpandTimeSlots ==
    { InitialTimeSlot,
      [k \in {1, 2} |->
          IF k = 1 THEN [start_time |-> <<PadStart2(13), PadStart2(15)>>,
                         end_time |-> TimeString(14, 45, 30)]
          ELSE [start_time |-> TimeString(8, 0, 0), end_time |-> TimeString(8, 50, 0)]] }

\* the clock at load: Monday 00:00, Wednesday afternoon, Sunday 23:59:59, the
\* Tuesday of the week after, the Sunday of the week before
ExpandNows ==
    {At(0, 0, 0, 0), At(2, 15, 20, 0), At(6, 23, 59, 59), At(8, 7, 5, 0), At(-1, 10, 0, 0)}

ExpandInit ==
    /\ sections \in ExpandSections
    /\ timeSlot \in ExpandTimeSlots
    /\ events = <<>>
    /\ loaded = "pending"
    /\ pending = <<>>
    /\ requests = {}
    /\ moves = 0
    /\ last = NoStep
    /\ professorFilter = <<>>
    /\ roomFilter = <<>>
    /\ gradeFilter = <<>>
    /\ probe = NoProbe

ExpandNext ==
    \/ \E now \in ExpandNows : FetchOk(now)
    \/ FetchError

SpecExpand == ExpandInit /\ [][ExpandNext]_vars

----------------------------------------------------------------------------
(* Steps and states the properties speak of *)

\* this step is handleEventDrop called with last'.event, last'.start, last'.end
DropStep == last'.op = "drop"

\* this step is the return of window.confirm
ConfirmStep == pending # <<>> /\ pending' = <<>>

\* this step resumes the handler that awaited update r
ResumeStep(r) == r \in requests /\ r.status # "sent" /\ r \notin requests'

\* the updates issued by this step
Issued == {r \in requests' : r.status = "sent" /\ r \notin requests}

\* the conflict list of the move that last' records, on the events before the step
DroppedConflicts ==
    Conflicts(MovedEvent(last'.event[1], last'.start, last'.end, FALSE), events)

\* the proposed interval of last' overlaps an event other than the moved one
DroppedOverlaps ==
    \E k \in DOMAIN events :
        /\ events[k].id # last'.event[1].id
        /\ timesOverlap(last'.start, last'.end, events[k].start, events[k].end)

\* after the step, every event of r's time slot has r's time of day on its own date
MovedTogether(r) ==
    /\ DOMAIN events' = DOMAIN events
    /\ \A k \in DOMAIN events :
        events[k].timeSlotId = r.timeSlotId =>
            /\ TimeOfDay(events'[k].start) = TimeOfDay(r.start)
            /\ TimeOfDay(events'[k].end) = TimeOfDay(r.end)
            /\ DateOf(events'[k].start) = DateOf(events[k].start)
            /\ DateOf(events'[k].end) = DateOf(events[k].end)

\* the events of time slot id
OfSlot(id) == {k \in DOMAIN events : events[k].timeSlotId = id}

----------------------------------------------------------------------------
(* Properties *)

\* C1: a drop whose proposed start falls on another weekday than the event's
\* start is rejected with a notice, conflict or not: the events, the store and
\* the awaited updates are as before, and no confirmation is opened.
DayChangeRejected ==
    [][ (DropStep /\ getDay(last'.event[1].start) # getDay(last'.start)) =>
            /\ events' = events
            /\ timeSlot' = timeSlot
            /\ requests' = requests
            /\ pending' = <<>>
            /\ last'.notice = "dayChange" ]_vars

\* C1 witness: a drop to another weekday was rejected although its interval
\* collides with another event on a shared attribute
DayChangeRejectedReached ==
    /\ last.op = "drop"
    /\ getDay(last.event[1].start) # getDay(last.start)
    /\ last.notice = "dayChange"
    /\ Conflicts(MovedEvent(last.event[1], last.start, last.end, FALSE), events) # <<>>

\* C2: when window.confirm returns a decline for a non-empty conflict list, no
\* update is issued and the events and the store are as before.
DeclineChangesNothing ==
    [][ (ConfirmStep /\ last'.op = "decline") =>
            /\ pending[1].conflicts # <<>>
            /\ events' = events
            /\ timeSlot' = timeSlot
            /\ requests' = requests ]_vars

\* C2 witness: a move with conflicts was declined, and both the moved event and
\* an event it collides with are in the set
DeclineReached ==
    /\ last.op = "decline"
    /\ last.conflicts # <<>>
    /\ \E j, k \in DOMAIN events :
        /\ events[j] = last.event[1]
        /\ events[k].id # events[j].id
        /\ timesOverlap(last.start, last.end, events[k].start, events[k].end)

\* C3: when the awaited update answers with an error, the handler shows the
\* failure notice, leaves every event as it is and issues no further update.
FailureChangesNothing ==
    [][ \A r \in requests : (ResumeStep(r) /\ r.status = "error") =>
            /\ events' = events
            /\ last'.notice = "saveFailed"
            /\ requests' = requests \ {r}
            /\ timeSlot' = timeSlot
            /\ pending' = pending ]_vars

\* C3 witness: an update that would have changed the time of its slot failed
FailureReached ==
    /\ last.op = "failed"
    /\ last.notice = "saveFailed"
    /\ \E k \in DOMAIN events :
        /\ events[k].timeSlotId = last.req[1].timeSlotId
        /\ TimeOfDay(events[k].start) # TimeOfDay(last.req[1].start)

\* C4: a same-weekday drop whose interval overlaps no other event issues the
\* update at once, without a confirmation; and when an update issued that way
\* succeeds, every event of the time slot gets the new start and end time of
\* day on its own date.
CleanMoveCommits ==
    [][ /\ (DropStep /\ getDay(last'.event[1].start) = getDay(last'.start)
                     /\ ~DroppedOverlaps) =>
            /\ pending' = <<>>
            /\ Issued = {UpdateRequest(moves', last'.event[1], last'.start, last'.end, FALSE)}
        /\ \A r \in requests : (ResumeStep(r) /\ r.status = "ok" /\ ~r.asked) =>
            MovedTogether(r) ]_vars

\* C4 witness: an update issued without confirmation has moved two events of
\* one time slot that lie on different dates
CleanMoveReached ==
    /\ last.op = "committed"
    /\ ~last.req[1].asked
    /\ \E j, k \in OfSlot(last.req[1].timeSlotId) :
        /\ DateOf(events[j].start) # DateOf(events[k].start)
        /\ TimeOfDay(events[j].start) = TimeOfDay(last.req[1].start)
        /\ TimeOfDay(events[k].start) = TimeOfDay(last.req[1].start)
        /\ toTimeString(events[j].start) # InitialTimeSlot[last.req[1].timeSlotId].start_time

\* C5: when window.confirm returns an accept for a non-empty conflict list, the
\* update of the moved event's time slot is issued with the proposed times; and
\* when an update issued that way succeeds, every event of the time slot gets
\* the new start and end time of day on its own date.
OverrideCommits ==
    [][ /\ (ConfirmStep /\ last'.op = "accept") =>
            /\ pending[1].conflicts # <<>>
            /\ Issued = {UpdateRequest(pending[1].id, pending[1].event,
                                       pending[1].start, pending[1].end, TRUE)}
        /\ \A r \in requests : (ResumeStep(r) /\ r.status = "ok" /\ r.asked) =>
            MovedTogether(r) ]_vars

\* C5 witness: an accepted override has moved two events of one time slot that
\* lie on different dates
OverrideReached ==
    /\ last.op = "committed"
    /\ last.req[1].asked
    /\ \E j, k \in OfSlot(last.req[1].timeSlotId) :
        /\ DateOf(events[j].start) # DateOf(events[k].start)
        /\ TimeOfDay(events[j].start) = TimeOfDay(last.req[1].start)
        /\ TimeOfDay(events[k].start) = TimeOfDay(last.req[1].start)
        /\ toTimeString(events[j].start) # InitialTimeSlot[last.req[1].timeSlotId].start_time

\* C6: any two events of one time slot have the same start time of day and the
\* same end time of day.
SlotTimesAgree ==
    \A j, k \in DOMAIN events :
        events[j].timeSlotId = events[k].timeSlotId =>
            /\ TimeOfDay(events[j].start) = TimeOfDay(events[k].start)
            /\ TimeOfDay(events[j].end) = TimeOfDay(events[k].end)

\* C6 witness: a committed move has changed the time of a slot that events of
\* two sections share
SlotTimesAgreeReached ==
    /\ last.op = "committed"
    /\ \E j, k \in OfSlot(last.req[1].timeSlotId) :
        /\ events[j].sectionId # events[k].sectionId
        /\ toTimeString(events[j].start) # InitialTimeSlot[last.req[1].timeSlotId].start_time

\* C7: an update is issued either by a drop whose conflict list is empty or by
\* the return of window.confirm with an accept; a drop with a non-empty
\* conflict list issues none.
ConfirmBeforeCommit ==
    [][ Issued # {} =>
            \/ DropStep /\ DroppedConflicts = <<>>
            \/ ConfirmStep /\ last'.op = "accept"
                           /\ \A r \in Issued : r.id = pending[1].id ]_vars

\* C7 witness: the update of a move with conflicts is awaited after an accept
ConfirmBeforeCommitReached ==
    /\ last.op = "accept"
    /\ last.conflicts # <<>>
    /\ \E r \in requests : r.asked /\ r.status = "sent" /\ r.start = last.start

\* C8: once no update is awaited and no confirmation is open, the time of day
\* of every event is the one the store holds for the event's time slot.
MemoryMatchesStore ==
    (loaded = "ok" /\ requests = {} /\ pending = <<>>) =>
        \A k \in DOMAIN events :
            /\ toTimeString(events[k].start) = timeSlot[events[k].timeSlotId].start_time
            /\ toTimeString(events[k].end) = timeSlot[events[k].timeSlotId].end_time

\* C9: no step after the load changes the number or the order of the event
\* identities or the date of a start or an end, and every event starts and ends
\* on the same date.
DatesKept ==
    [][ loaded = "ok" =>
            /\ DOMAIN events' = DOMAIN events
            /\ \A k \in DOMAIN events :
                /\ events'[k].id = events[k].id
                /\ DateOf(events'[k].start) = DateOf(events[k].start)
                /\ DateOf(events'[k].end) = DateOf(events[k].end)
                /\ DateOf(events'[k].start) = DateOf(events'[k].end) ]_vars

\* C9 witness: a move dropped on another date than an event of its time slot,
\* with the proposed end on the day after the proposed start, has committed
DatesKeptReached ==
    /\ last.op = "committed"
    /\ DateOf(last.req[1].end) # DateOf(last.req[1].start)
    /\ \E k \in OfSlot(last.req[1].timeSlotId) :
        /\ DateOf(events[k].start) # DateOf(last.req[1].start)
        /\ TimeOfDay(events[k].start) = TimeOfDay(last.req[1].start)

\* C10: a committed move leaves every event of another time slot as it is and
\* changes nothing but start and end of the events of its own time slot.
OthersUntouched ==
    [][ \A r \in requests : (ResumeStep(r) /\ r.status = "ok") =>
            /\ DOMAIN events' = DOMAIN events
            /\ \A k \in DOMAIN events :
                /\ events[k].timeSlotId # r.timeSlotId => events'[k] = events[k]
                /\ [events'[k] EXCEPT !.start = 0, !.end = 0]
                       = [events[k] EXCEPT !.start = 0, !.end = 0] ]_vars

\* C10 witness: an accepted override has committed, and an event of another
\* time slot that the moved events now overlap is in the set
OthersUntouchedReached ==
    /\ last.op = "committed"
    /\ last.req[1].asked
    /\ \E j, k \in DOMAIN events :
        /\ events[j].timeSlotId = last.req[1].timeSlotId
        /\ events[k].timeSlotId # last.req[1].timeSlotId
        /\ TimeOfDay(events[j].start) # TimeOfDay(events[k].start)
        /\ timesOverlap(events[j].start, events[j].end, events[k].start, events[k].end)

\* C11: whatever the filters select, the conflict list of a same-weekday drop
\* is the list computed over all events, and the drop opens the confirmation
\* exactly when that list is not empty and issues the update otherwise.
FiltersDoNotHideConflicts ==
    [][ (DropStep /\ getDay(last'.event[1].start) = getDay(last'.start)) =>
            /\ last'.conflicts = DroppedConflicts
            /\ (DroppedConflicts # <<>>) =>
                   /\ pending' # <<>>
                   /\ pending'[1].conflicts = DroppedConflicts
                   /\ Issued = {}
            /\ (DroppedConflicts = <<>>) =>
                   /\ pending' = <<>>
                   /\ Issued # {} ]_vars

\* C11 witness: a drop met a conflict with an event the filters keep off the
\* display, and the confirmation is open
FiltersDoNotHideConflictsReached ==
    /\ last.op = "drop"
    /\ pending # <<>>
    /\ \E k \in DOMAIN events :
        /\ ~PassesFilters(events[k], professorFilter, roomFilter, gradeFilter)
        /\ ConflictsWith(MovedEvent(last.event[1], last.start, last.end, FALSE),
                         events[k]) # <<>>
        /\ \A j \in DOMAIN events :
            (j # k /\ PassesFilters(events[j], professorFilter, roomFilter, gradeFilter)) =>
                ConflictsWith(MovedEvent(last.event[1], last.start, last.end, FALSE),
                              events[j]) = <<>>

\* the events made from row k of the view (pattern_slot_id names the row)
OccurrencesOfRow(k) ==
    SelectSeq(events, LAMBDA e : e.patternSlotId = sections[k].pattern_slot_id)

\* the Monday 00:00 of the week (Monday to Sunday) that holds the instant now
MondayOf(now) == (now \div (DaysPerWeek * MsPerDay)) * (DaysPerWeek * MsPerDay)

\* the time of day an "HH:MM[:SS]" string denotes
TimeOfString(t) ==
    Number(t[1]) * MsPerHour + Number(t[2]) * MsPerMinute
        + (IF Len(t) >= 3 THEN Number(t[3]) * MsPerSecond ELSE 0)

\* event e lies on the day of character c in the week of the load, from the
\* start time to the end time of time slot id
OccursOn(e, c, id) ==
    /\ c \in DOMAIN DAY_MAP
    /\ getDay(e.start) = DAY_MAP[c]
    /\ DateOf(e.start) = DateOf(MondayOf(last.now)) + DAY_MAP[c] - 1
    /\ DateOf(e.end) = DateOf(e.start)
    /\ TimeOfDay(e.start) = TimeOfString(timeSlot[id].start_time)
    /\ TimeOfDay(e.end) = TimeOfString(timeSlot[id].end_time)

\* C12 as stated: a row with a day code of length N gives N events, the j-th
\* on the day of the j-th character.
ExpandedPerLength ==
    last.op = "load" =>
        \A k \in DOMAIN sections :
            LET code == sections[k].day_code
                occ == OccurrencesOfRow(k)
            IN  /\ Len(occ) = Len(code)
                /\ \A j \in DOMAIN code : OccursOn(occ[j], code[j], sections[k].time_slot_id)

\* C12: a row gives one event for each character of its day code that is one
\* of M, T, W, R, F, in the order of the code (N events for a code of N such
\* characters; an empty code counts as "M"): each on that weekday of the week,
\* Monday to Sunday, that holds the instant of the load, from the row's start
\* time to its end time.
ExpandedPerRecognized ==
    last.op = "load" =>
        \A k \in DOMAIN sections :
            LET code == IF sections[k].day_code = <<>> THEN <<"M">> ELSE sections[k].day_code
                rec == SelectSeq(code, LAMBDA c : c \in DOMAIN DAY_MAP)
                occ == OccurrencesOfRow(k)
            IN  /\ Len(occ) = Len(rec)
                /\ \A j \in DOMAIN rec : OccursOn(occ[j], rec[j], sections[k].time_slot_id)

\* C12 witness: loaded on a Sunday, a day code of three known characters has
\* given three events
ExpandedPerRecognizedReached ==
    /\ last.op = "load"
    /\ getDay(last.now) = 0
    /\ Len(sections[1].day_code) = 3
    /\ \A j \in 1..3 : sections[1].day_code[j] \in DOMAIN DAY_MAP
    /\ Len(OccurrencesOfRow(1)) = 3

\* C13: timesOverlap returns the same with the two intervals exchanged, and
\* false when one interval ends at or before the start of the other.
OverlapSymmetric ==
    probe.args # <<>> =>
        /\ probe.result = probe.swapped
        /\ (probe.args[2] <= probe.args[3] \/ probe.args[4] <= probe.args[1]) =>
               ~probe.result

\* C13 witness: timesOverlap was called on two intervals of positive length
\* where the first ends at the start of the second, and returned false
OverlapSymmetricReached ==
    /\ probe.args # <<>>
    /\ probe.args[1] < probe.args[2]
    /\ probe.args[2] = probe.args[3]
    /\ probe.args[3] < probe.args[4]
    /\ ~probe.result

\* C14 as stated: an interval of zero length overlaps nothing, whichever
\* argument it is.
ZeroDurationNeverOverlaps ==
    (probe.args # <<>> /\ probe.args[1] = probe.args[2]) =>
        ~probe.result /\ ~probe.swapped

\* C14: an interval of zero length at s overlaps the interval from c to d
\* exactly when c < s < d, whichever argument it is; so it overlaps no
\* interval it only touches, and no other interval of zero length.
ZeroDurationOverlapsInside ==
    (probe.args # <<>> /\ probe.args[1] = probe.args[2]) =>
        LET s == probe.args[1]
            c == probe.args[3]
            d == probe.args[4]
        IN  /\ probe.result <=> (c < s /\ s < d)
            /\ probe.swapped <=> (c < s /\ s < d)

\* C14 witness: timesOverlap was called with an interval of zero length
\* strictly inside the other, and returned true
ZeroDurationOverlapsInsideReached ==
    /\ probe.args # <<>>
    /\ probe.args[1] = probe.args[2]
    /\ probe.args[3] < probe.args[1]
    /\ probe.args[1] < probe.args[4]
    /\ probe.result

\* the values a selection holds, whatever their order
Selected(f) == {f[i] : i \in DOMAIN f}

\* the indices of the events that each facet lets through: nothing selected in
\* the facet, or the event's value among the selected
KeptIndices ==
    {k \in DOMAIN events :
        /\ Selected(professorFilter) = {} \/ events[k].professor \in Selected(professorFilter)
        /\ Selected(roomFilter) = {} \/ events[k].room \in Selected(roomFilter)
        /\ Selected(gradeFilter) = {} \/ events[k].gradeLevel \in Selected(gradeFilter)}

\* C15: the events on display are exactly the events that every facet lets
\* through (empty selection, or value selected), in the order of events; they
\* depend on the selected values only, not on the order they were selected in.
FilteredIsConjunction ==
    LET shown == filteredEvents(events, professorFilter, roomFilter, gradeFilter)
    IN  /\ Len(shown) = Cardinality(KeptIndices)
        /\ \A j \in DOMAIN shown :
            shown[j] = events[CHOOSE k \in KeptIndices :
                                  Cardinality({i \in KeptIndices : i < k}) = j - 1]

\* C15 witness: two professors selected, the second in the facet's list first,
\* and a selection of another facet hides some events and shows others
FilteredIsConjunctionReached ==
    /\ professorFilter = <<"Lee", "Kim">>
    /\ roomFilter # <<>>
    /\ KeptIndices # {}
    /\ KeptIndices # DOMAIN events

\* events a and b of different time slots share the professor, the room or the
\* grade level
SharesAttribute(a, b) ==
    /\ a.timeSlotId # b.timeSlotId
    /\ (a.professor = b.professor \/ a.room = b.room \/ a.gradeLevel = b.gradeLevel)

\* C16: when an update issued without a confirmation commits, no event of its
\* time slot (the moved one or a sibling) overlaps an event of another time
\* slot with the same professor, room or grade level, unless the two
\* overlapped before the commit.
UnaskedCommitCollidesWithNone ==
    [][ \A r \in requests : (ResumeStep(r) /\ r.status = "ok" /\ ~r.asked) =>
            \A k, j \in DOMAIN events :
                ( /\ events[k].timeSlotId = r.timeSlotId
                  /\ SharesAttribute(events[k], events[j])
                  /\ timesOverlap(events'[k].start, events'[k].end,
                                  events'[j].start, events'[j].end) ) =>
                    timesOverlap(events[k].start, events[k].end,
                                 events[j].start, events[j].end) ]_vars

\* the attributes compared, in the order of their entries
AttributeKinds == <<"Professor", "Room", "Grade-level">>

AttributeOf(e, a) ==
    CASE a = 1 -> e.professor
      [] a = 2 -> e.room
      [] a = 3 -> e.gradeLevel

\* the pairs <<k, a>> of the move that last' records: events[k] is not the
\* moved event, overlaps the proposed interval and equals the moved event on
\* attribute a
DroppedPairs ==
    {p \in (DOMAIN events) \X (DOMAIN AttributeKinds) :
        /\ events[p[1]].id # last'.event[1].id
        /\ timesOverlap(last'.start, last'.end, events[p[1]].start, events[p[1]].end)
        /\ AttributeOf(events[p[1]], p[2]) = AttributeOf(last'.event[1], p[2])}

\* the place of pair p: by event, then by attribute
PairRank(p) ==
    1 + Cardinality({q \in DroppedPairs : q[1] < p[1] \/ (q[1] = p[1] /\ q[2] < p[2])})

\* C17: the conflict list of a same-weekday drop has exactly one entry for
\* each pair of another event that overlaps the proposed interval and an
\* attribute (professor, room, grade level) it shares with the moved event;
\* the entries stand in the order of events and, for one event, in the order
\* professor, room, grade level; so the list is empty exactly when there is no
\* such pair.
ConflictListPerPair ==
    [][ (DropStep /\ getDay(last'.event[1].start) = getDay(last'.start)) =>
            /\ Len(last'.conflicts) = Cardinality(DroppedPairs)
            /\ \A p \in DroppedPairs :
                last'.conflicts[PairRank(p)] =
                    [ kind |-> AttributeKinds[p[2]],
                      who |-> AttributeOf(last'.event[1], p[2]),
                      title |-> events[p[1]].title ]
            /\ \A k \in DOMAIN events :
                Cardinality({p \in DroppedPairs : p[1] = k}) \in 0..3 ]_vars

\* C17 witness: a drop over two other events got three entries for the first
\* of them, in the order professor, room, grade level, then two for the second;
\* the moved event's own old interval, which the proposed one overlaps, added
\* none
ConflictListPerPairReached ==
    /\ last.op = "drop"
    /\ Len(last.conflicts) = 5
    /\ last.conflicts[1].kind = "Professor" /\ last.conflicts[1].title = "MA201"
    /\ last.conflicts[2].kind = "Room" /\ last.conflicts[2].title = "MA201"
    /\ last.conflicts[3].kind = "Grade-level" /\ last.conflicts[3].title = "MA201"
    /\ last.conflicts[4].kind = "Professor" /\ last.conflicts[4].title = "PH301"
    /\ last.conflicts[5].kind = "Grade-level" /\ last.conflicts[5].title = "PH301"
    /\ timesOverlap(last.start, last.end, last.event[1].start, last.event[1].end)

\* C18: the ids of the events that rowsToEvents returns are pairwise distinct,
\* whatever the rows: also when a day code repeats a character and when two
\* rows carry the same section id.
IdsDistinct ==
    last.op = "load" =>
        \A j, k \in DOMAIN events : j # k => events[j].id # events[k].id

\* C19: once the answer of window.confirm and of the store have arrived and
\* the handler of a move has run to its end, the move has exactly one of the
\* outcomes rejected for a change of day, declined, stopped with the notice
\* of a failed save, or committed; it never ends in an uncaught exception,
\* also when the update throws.
MoveEndsInOutcome ==
    ( /\ last.op \in {"drop", "accept", "decline", "failed", "committed", "uncaught"}
      /\ pending = <<>>
      /\ requests = {} ) =>
        \/ last.op = "drop" /\ last.notice = "dayChange"
        \/ last.op = "decline"
        \/ last.op = "failed" /\ last.notice = "saveFailed"
        \/ last.op = "committed"

\* C20: every event starts before it ends, in every state: rows come with
\* start_time < end_time, and no committed move leaves an event whose end is
\* at or before its start, also when the proposed end falls on the day after
\* the proposed start.
StartBeforeEnd ==
    \A k \in DOMAIN events : events[k].start < events[k].end

\* C21: after a committed move, with no other update awaited, expanding the
\* rows the store now holds (the time slot's start_time and end_time being the
\* strings toTimeString produced) at an instant of the same week gives events
\* with the same start and end as the events in memory.
ReloadAgrees ==
    (last.op = "committed" /\ requests = {}) =>
        \A now \in NowChoices :
            LET fresh == rowsToEvents(ViewRows(sections, timeSlot), now)
            IN  /\ DOMAIN fresh = DOMAIN events
                /\ \A k \in DOMAIN events :
                    /\ fresh[k].id = events[k].id
                    /\ fresh[k].start = events[k].start
                    /\ fresh[k].end = events[k].end

====
